---- MODULE Spec2Model ----
(***************************************************************************)
(* k8s-psl: run a child command and, when it succeeds, label a Kubernetes  *)
(* Pod or Job through a server-side-apply metadata patch.  The model       *)
(* follows src/main.rs: the two clap value parsers (parse_label,           *)
(* parse_resource), the patch_resource! macro and main.                    *)
(*                                                                         *)
(* Strings the program inspects character by character (the label and the  *)
(* resource identifier) are sequences of one-character strings.            *)
(***************************************************************************)
EXTENDS Integers, Sequences, FiniteSets, TLC

VARIABLES
    pc,          \* position of main: parse, infer, client, command, patch, done
    args,        \* the raw command line / environment
    cli,         \* the Cli struct, with the value parsers' results
    k8s_config,  \* the inferred Config with its timeouts
    k8s_client,  \* TRUE once Client::try_from has succeeded
    status,      \* what became of the child process
    patches,     \* the patch requests sent to the Kubernetes API, in order
    result,      \* the outcome of patch_metadata
    exit,        \* the process exit code: {} while running, {n} once exited
    ops          \* the external operations attempted so far, in order

vars == <<pc, args, cli, k8s_config, k8s_client, status, patches, result, exit, ops>>

----------------------------------------------------------------------------
(* Bounds of the model *)

\* longest label string enumerated exhaustively over LabelAlphabet
MaxLen == 4
\* longest run of filler characters inside a generated name or value segment
MaxRun == 65
\* longest remainder enumerated after the leading segment of a resource
MaxTail == 4
\* the child's exit status, an i32, ranges CodeSlack beyond both ends of u8
CodeSlack == 3

----------------------------------------------------------------------------
(* Program constants *)

\* {0,62} in the label regex
SegmentRepeatMax == 62
\* {1,253} in the label regex
PrefixRepeatMax == 253
\* u8::MAX, the range of u8::try_from
U8Max == 255
\* Duration::from_secs(15)
TimeoutSecs == 15
\* ExitCode::from(66), ExitCode::from(68)
ExitApi == 66
ExitService == 68
\* the exit code of a main that returns Err (ExitCode::FAILURE)
ExitFailure == 1
\* the exit code of a main that returns Ok(ExitCode::from(0))
ExitSuccess == 0
\* clap: usage errors exit with 2
ExitUsage == 2

----------------------------------------------------------------------------
(* Character classes of the label regex *)

Lower == {"a","b","c","d","e","f","g","h","i","j","k","l","m",
          "n","o","p","q","r","s","t","u","v","w","x","y","z"}
Upper == {"A","B","C","D","E","F","G","H","I","J","K","L","M",
          "N","O","P","Q","R","S","T","U","V","W","X","Y","Z"}
Digit == {"0","1","2","3","4","5","6","7","8","9"}

\* [a-z0-9A-Z]
AlnumClass == Lower \cup Upper \cup Digit
\* [a-z0-9A-Z.]
PrefixClass == AlnumClass \cup {"."}
\* [a-z0-9A-Z\-_.]
SegmentClass == AlnumClass \cup {"-", "_", "."}

----------------------------------------------------------------------------
(* str::split and join *)

\* v.split(sep): the pieces of v between the occurrences of sep; never empty
RECURSIVE Split(_, _)
Split(v, sep) ==
    IF \A i \in 1..Len(v) : v[i] # sep
    THEN <<v>>
    ELSE LET i == CHOOSE k \in 1..Len(v) :
                      v[k] = sep /\ \A j \in 1..(k-1) : v[j] # sep
         IN  <<SubSeq(v, 1, i-1)>> \o Split(SubSeq(v, i+1, Len(v)), sep)

\* parts.join(sep)
RECURSIVE Join(_, _)
Join(parts, sep) ==
    IF parts = <<>> THEN <<>>
    ELSE IF Len(parts) = 1 THEN parts[1]
    ELSE parts[1] \o <<sep>> \o Join(Tail(parts), sep)

----------------------------------------------------------------------------
(* The regex of parse_label, matched as an automaton: a set of positions   *)
(* (number of characters consumed) is advanced through the regex's pieces. *)

\* number of consecutive characters of v after position p that lie in class
ClassRun(v, p, class) ==
    LET other == { i \in (p+1)..Len(v) : v[i] \notin class }
    IN  IF other = {} THEN Len(v) - p
        ELSE (CHOOSE i \in other : \A j \in other : i <= j) - p - 1

\* positions reachable from a position of S by [class]{lo,hi}
Repeat(v, S, class, lo, hi) ==
    UNION { LET run == ClassRun(v, p, class)
            IN  { p + n : n \in lo..(IF run < hi THEN run ELSE hi) } : p \in S }

\* positions reachable from a position of S by the literal character c
Literal(v, S, c) == Repeat(v, S, {c}, 1, 1)

\* the regex with the name segment allowed one character too many
LabelRegexMatch_LongSegment(v) ==
    LET prefix == Literal(v, Repeat(v, {0}, PrefixClass, 1, PrefixRepeatMax), "/")
        name   == Repeat(v, Repeat(v, {0} \cup prefix, SegmentClass,
                                   0, SegmentRepeatMax + 1), AlnumClass, 1, 1)
        eq     == Literal(v, name, "=")
        value  == Repeat(v, Repeat(v, eq, SegmentClass, 0, SegmentRepeatMax),
                         AlnumClass, 1, 1)
    IN  Len(v) \in value

\* ^([a-z0-9A-Z.]{1,253}/)?[a-z0-9A-Z\-_.]{0,62}[a-z0-9A-Z]=
\*  [a-z0-9A-Z\-_.]{0,62}[a-z0-9A-Z]$  is_match(v)
LabelRegexMatch(v) ==
    LET prefix == Literal(v, Repeat(v, {0}, PrefixClass, 1, PrefixRepeatMax), "/")
        name   == Repeat(v, Repeat(v, {0} \cup prefix, SegmentClass,
                                   0, SegmentRepeatMax), AlnumClass, 1, 1)
        eq     == Literal(v, name, "=")
        value  == Repeat(v, Repeat(v, eq, SegmentClass, 0, SegmentRepeatMax),
                         AlnumClass, 1, 1)
    IN  Len(v) \in value

----------------------------------------------------------------------------
(* The value parsers.  A Result is a record whose ok field tells Ok from   *)
(* Err; the other fields of an Err carry nothing.                          *)

LabelErr == [ok |-> FALSE, key |-> <<>>, value |-> <<>>]
ResourceErr == [ok |-> FALSE, kind |-> "none", name |-> <<>>]

\* fn parse_label(v: &str) -> Result<(String, String)>
parse_label(v) ==
    IF ~LabelRegexMatch(v)
    THEN LabelErr
    ELSE LET parts == Split(v, "=")
         IN  [ok    |-> TRUE,
              key   |-> parts[1],
              value |-> IF Len(parts) >= 2 THEN parts[2] ELSE <<>>]

\* parse_resource keeping only the segment after the first '/'
parse_resource_SecondSegment(v) ==
    LET parts == Split(v, "/")
        name  == IF Len(parts) >= 2 THEN parts[2] ELSE <<>>
    IN  IF parts[1] = <<"j", "o", "b">> THEN [ok |-> TRUE, kind |-> "Job", name |-> name]
        ELSE IF parts[1] = <<"p", "o", "d">> THEN [ok |-> TRUE, kind |-> "Pod", name |-> name]
        ELSE ResourceErr

\* fn parse_resource(v: &str) -> Result<(ResourceKind, String)>
parse_resource(v) ==
    LET parts == Split(v, "/")
        name  == Join(Tail(parts), "/")
    IN  IF parts[1] = <<"j", "o", "b">> THEN [ok |-> TRUE, kind |-> "Job", name |-> name]
        ELSE IF parts[1] = <<"p", "o", "d">> THEN [ok |-> TRUE, kind |-> "Pod", name |-> name]
        ELSE ResourceErr

----------------------------------------------------------------------------
(* Helpers of main.  An Option or a fallible conversion is a set: {} for    *)
(* None / Err, {x} for Some(x) / Ok(x).                                    *)

\* ExitStatus::success(): the child exited with status 0
success(code) == code = {0}

\* Option::unwrap_or
unwrap_or(opt, default) == IF opt = {} THEN default ELSE CHOOSE x \in opt : TRUE

\* u8::try_from(i32)
u8_try_from(x) == IF 0 <= x /\ x <= U8Max THEN {x} ELSE {}

\* the exit code of main after a child that did not succeed, with the
\* conversion done by a wrapping cast (as u8)
ChildExit_Wrapping(code) == unwrap_or(code, 1) % (U8Max + 1)

\* the exit code of main after a child that did not succeed, with the
\* child's code dropped in favour of a plain failure
ChildExit_Failure(code) == ExitFailure

\* return Ok(ExitCode::from(u8::try_from(status.code().unwrap_or(1))?)):
\* the exit code of main after a child that did not succeed
ChildExit(code) ==
    LET converted == u8_try_from(unwrap_or(code, 1))
    IN  IF converted = {} THEN ExitFailure ELSE CHOOSE x \in converted : TRUE

\* the outcomes of patch_metadata: Ok, or one of kube::Error's variants
PatchResults == {"Ok", "Api", "Service", "HyperError", "SerdeError", "BuildRequest"}

\* the match on the patch result with the two dedicated codes exchanged
PatchExit_Swapped(r) ==
    IF r = "Api" THEN ExitService
    ELSE IF r = "Service" THEN ExitApi
    ELSE IF r # "Ok" THEN ExitFailure
    ELSE ExitSuccess

\* the match on the patch result with the Service arm missing
PatchExit_NoService(r) ==
    IF r = "Api" THEN ExitApi
    ELSE IF r # "Ok" THEN ExitFailure
    ELSE ExitSuccess

\* match result { Err(Error::Api(_)) => 66, Err(Error::Service(_)) => 68,
\*                Err(_) => 1, _ => 0 }
PatchExit(r) ==
    IF r = "Api" THEN ExitApi
    ELSE IF r = "Service" THEN ExitService
    ELSE IF r # "Ok" THEN ExitFailure
    ELSE ExitSuccess

\* the request addressed to the default namespace instead of the given one
PatchRequest_DefaultNamespace(api, ns, name, label) ==
    [api           |-> api,
     namespace     |-> "default",
     name          |-> name,
     labels        |-> {<<label.key, label.value>>},
     field_manager |-> "k8s-psl",
     patch         |-> "Apply"]

\* Api::<$kind>::namespaced(client, ns).patch_metadata(name,
\*     &PatchParams::apply("k8s-psl"), &Patch::Apply(&metadata))
\* where metadata holds nothing but labels = {label}
PatchRequest(api, ns, name, label) ==
    [api           |-> api,
     namespace     |-> ns,
     name          |-> name,
     labels        |-> {<<label.key, label.value>>},
     field_manager |-> "k8s-psl",
     patch         |-> "Apply"]

\* the child's possible fates: it cannot be spawned, it exits with a code,
\* or it is terminated without one
ChildStatuses ==
    {[state |-> "spawn_error", code |-> {}], [state |-> "signaled", code |-> {}]}
    \cup {[state |-> "exited", code |-> {c}] :
              c \in (0 - CodeSlack)..(U8Max + CodeSlack)}

NotRun == [state |-> "not_run", code |-> {}]

\* the parser's exit codes with the resource argument left unvalidated
CliParseExit_LabelOnly(a) ==
    (IF a.flag # "run" THEN {ExitSuccess} ELSE {})
    \cup (IF ~parse_label(a.label).ok THEN {ExitUsage} ELSE {})

\* the codes clap may exit with while parsing, {} when parsing succeeds:
\* --help / --version print and exit 0, an argument a value parser rejects
\* is a usage error; with both on the command line the first one decides
CliParseExit(a) ==
    LET valid == parse_label(a.label).ok /\ parse_resource(a.resource).ok
    IN  (IF a.flag # "run" THEN {ExitSuccess} ELSE {})
        \cup (IF ~valid THEN {ExitUsage} ELSE {})

----------------------------------------------------------------------------
(* The inputs *)

Rep(c, n) == [i \in 1..n |-> c]

\* a segment with first character f, n filler characters and last character l
Seg(f, n, l) == <<f>> \o Rep("a", n) \o <<l>>

LabelAlphabet == {"a", "Z", "7", "-", "_", ".", "/", "=", "!"}
SegEdges == {"a", "-"}
PrefixLens == {1, PrefixRepeatMax - 1, PrefixRepeatMax, PrefixRepeatMax + 1}

ShortLabels == UNION { [1..n -> LabelAlphabet] : n \in 0..MaxLen }

LongLabels ==
    { Seg(f, n, l) \o <<"=", "v">> : f \in SegEdges, l \in SegEdges, n \in 0..MaxRun }
    \cup { <<"k", "=">> \o Seg(f, n, l) : f \in SegEdges, l \in SegEdges, n \in 0..MaxRun }
    \cup { Rep(c, m) \o <<"/", "k", "=", "v">> : c \in {"p", ".", "-"}, m \in PrefixLens }
    \cup { Rep("p", m) \o <<"/">> \o Seg("a", n, "a") \o <<"=", "v">> :
               m \in PrefixLens, n \in (MaxRun - 5)..MaxRun }

LabelInputs == ShortLabels \cup LongLabels

ResourceHeads ==
    { <<"p","o","d">>, <<"j","o","b">>, <<"P","o","d">>, <<"J","O","B">>,
      <<"p","o">>, <<"p","o","d","s">>, <<"j","o","b","s">>, <<"c","r","o","n">>,
      <<" ","p","o","d">>, <<>> }
TailAlphabet == {"/", "w", "p"}
ResourceTails == UNION { [1..n -> TailAlphabet] : n \in 0..MaxTail }
ResourceInputs == { h \o t : h \in ResourceHeads, t \in ResourceTails }

\* the command lines of the whole-run specification
Flags == {"run", "help", "version"}
Namespaces == {"default", "jobs"}
LabelSamples ==
    { <<"k","=","v">>, <<"a",".","b","/","k","=","v">>, <<"-","k","=","v">>,
      <<"k","v">>, <<"k","=","v","-">> }
ResourceSamples ==
    { <<"p","o","d","/","w">>, <<"j","o","b","/","b">>, <<"p","o","d","/">>,
      <<"j","o","b","/","a","/","b">>, <<"P","o","d","/","w">>, <<"w">> }
Commands == { <<>>, <<"/bin/true">>, <<"sh", "-c", "exit 3">> }

CliNone == [namespace |-> "", label |-> LabelErr, resource |-> ResourceErr,
            command |-> <<>>]
ConfigNone == [inferred |-> FALSE, connect_timeout |-> {}, read_timeout |-> {},
               write_timeout |-> {}]

Start(a, at) ==
    /\ pc = at
    /\ args = a
    /\ cli = CliNone
    /\ k8s_config = ConfigNone
    /\ k8s_client = FALSE
    /\ status = NotRun
    /\ patches = <<>>
    /\ result = "none"
    /\ exit = {}
    /\ ops = <<>>

Init ==
    \E a \in [flag : Flags, namespace : Namespaces, label : LabelSamples,
              resource : ResourceSamples, command : Commands] : Start(a, "parse")

InitLabel ==
    \E l \in LabelInputs :
        Start([flag |-> "run", namespace |-> "default", label |-> l,
               resource |-> <<"p","o","d","/","w">>, command |-> <<"/bin/true">>],
              "label")

InitResource ==
    \E r \in ResourceInputs :
        Start([flag |-> "run", namespace |-> "default", label |-> <<"k","=","v">>,
               resource |-> r, command |-> <<"/bin/true">>],
              "resource")

----------------------------------------------------------------------------
(* The steps of main *)

\* the process exits with the given code
Exit(code) ==
    /\ exit' = {code}
    /\ pc' = "done"

\* let cli = Cli::parse();
CliParse ==
    /\ pc = "parse"
    /\ IF CliParseExit(args) = {}
       THEN /\ cli' = [namespace |-> args.namespace,
                       label     |-> parse_label(args.label),
                       resource  |-> parse_resource(args.resource),
                       command   |-> args.command]
            /\ pc' = "infer"
            /\ exit' = exit
       ELSE /\ \E code \in CliParseExit(args) : Exit(code)
            /\ cli' = cli
    /\ UNCHANGED <<args, k8s_config, k8s_client, status, patches, result, ops>>

\* Config::infer with its failure ignored
ConfigInfer_IgnoreFailure ==
    /\ pc = "infer"
    /\ ops' = Append(ops, "infer")
    /\ \E ok \in BOOLEAN :
          /\ k8s_config' = IF ok
                           THEN [inferred |-> TRUE,
                                 connect_timeout |-> {TimeoutSecs},
                                 read_timeout |-> {TimeoutSecs},
                                 write_timeout |-> {TimeoutSecs}]
                           ELSE k8s_config
          /\ pc' = "client"
          /\ exit' = exit
    /\ UNCHANGED <<args, cli, k8s_client, status, patches, result>>

\* let mut k8s_config = Config::infer().await?; and the three timeouts
ConfigInfer ==
    /\ pc = "infer"
    /\ ops' = Append(ops, "infer")
    /\ \E ok \in BOOLEAN :
          IF ok
          THEN /\ k8s_config' = [inferred |-> TRUE,
                                 connect_timeout |-> {TimeoutSecs},
                                 read_timeout |-> {TimeoutSecs},
                                 write_timeout |-> {TimeoutSecs}]
               /\ pc' = "client"
               /\ exit' = exit
          ELSE /\ Exit(ExitFailure)
               /\ k8s_config' = k8s_config
    /\ UNCHANGED <<args, cli, k8s_client, status, patches, result>>

\* let k8s_client = Client::try_from(k8s_config)?;
ClientTryFrom ==
    /\ pc = "client"
    /\ ops' = Append(ops, "client")
    /\ \E ok \in BOOLEAN :
          IF ok
          THEN /\ k8s_client' = TRUE
               /\ pc' = "command"
               /\ exit' = exit
          ELSE /\ Exit(ExitFailure)
               /\ k8s_client' = k8s_client
    /\ UNCHANGED <<args, cli, k8s_config, status, patches, result>>

\* the command is taken from the Cli, spawned and awaited; a child that did
\* not succeed ends the run with its own code
RunCommand ==
    /\ pc = "command"
    /\ IF cli.command = <<>>
       THEN /\ Exit(ExitFailure)
            /\ UNCHANGED <<status, ops>>
       ELSE /\ ops' = Append(ops, "spawn")
            /\ \E st \in ChildStatuses :
                  /\ status' = st
                  /\ IF st.state = "spawn_error"
                     THEN Exit(ExitFailure)
                     ELSE IF ~success(st.code)
                     THEN Exit(ChildExit(st.code))
                     ELSE pc' = "patch" /\ exit' = exit
    /\ UNCHANGED <<args, cli, k8s_config, k8s_client, patches, result>>

\* patch_resource!($kind, ...): one patch request, its result mapped to the
\* exit code
PatchResource(api) ==
    /\ ops' = Append(ops, "patch")
    /\ patches' = Append(patches, PatchRequest(api, cli.namespace,
                                               cli.resource.name, cli.label))
    /\ \E r \in PatchResults :
          /\ result' = r
          /\ Exit(PatchExit(r))
    /\ UNCHANGED <<args, cli, k8s_config, k8s_client, status>>

\* ResourceKind::Pod => patch_resource!(Pod, ...)
PatchPod ==
    /\ pc = "patch"
    /\ cli.resource.kind = "Pod"
    /\ PatchResource("Pod")

\* ResourceKind::Job => patch_resource!(Job, ...)
PatchJob ==
    /\ pc = "patch"
    /\ cli.resource.kind = "Job"
    /\ PatchResource("Job")

Next == CliParse \/ ConfigInfer \/ ClientTryFrom \/ RunCommand \/ PatchPod \/ PatchJob

Spec == Init /\ [][Next]_vars

----------------------------------------------------------------------------
(* The value parsers on their own: clap applies the parser to the argument *)

\* value_parser = ValueParser::new(parse_label)
ParseLabelStep ==
    /\ pc = "label"
    /\ cli' = [cli EXCEPT !.label = parse_label(args.label)]
    /\ pc' = "label_done"
    /\ UNCHANGED <<args, k8s_config, k8s_client, status, patches, result, exit, ops>>

\* value_parser = ValueParser::new(parse_resource)
ParseResourceStep ==
    /\ pc = "resource"
    /\ cli' = [cli EXCEPT !.resource = parse_resource(args.resource)]
    /\ pc' = "resource_done"
    /\ UNCHANGED <<args, k8s_config, k8s_client, status, patches, result, exit, ops>>

SpecLabel == InitLabel /\ [][ParseLabelStep]_vars

SpecResource == InitResource /\ [][ParseResourceStep]_vars

----------------------------------------------------------------------------
(* Vocabulary of the properties *)

Range(f) == { f[i] : i \in DOMAIN f }

IsPrefix(s, t) == Len(s) <= Len(t) /\ SubSeq(t, 1, Len(s)) = s

\* the child ran and exited with code n
ChildExited(n) == status.state = "exited" /\ status.code = {n}

LabelInvalid == ~parse_label(args.label).ok
ResourceInvalid == ~parse_resource(args.resource).ok

\* the text of v before its first occurrence of c (all of v if there is none)
Before(v, c) ==
    LET at == { i \in 1..Len(v) : v[i] = c }
    IN  IF at = {} THEN v
        ELSE SubSeq(v, 1, (CHOOSE i \in at : \A j \in at : i <= j) - 1)

\* the text of v after its first occurrence of c (empty if there is none)
After(v, c) ==
    LET at == { i \in 1..Len(v) : v[i] = c }
    IN  IF at = {} THEN <<>>
        ELSE SubSeq(v, (CHOOSE i \in at : \A j \in at : i <= j) + 1, Len(v))

Count(v, c) == Cardinality({ i \in 1..Len(v) : v[i] = c })

\* a name or value segment of the label grammar: 1 to 63 characters of
\* [a-zA-Z0-9-_.], the last one alphanumeric and, when bothEnds, the first too
SegmentOk(s, bothEnds) ==
    /\ Len(s) >= 1
    /\ Len(s) <= 63
    /\ \A i \in 1..Len(s) : s[i] \in Lower \cup Upper \cup Digit \cup {"-", "_", "."}
    /\ s[Len(s)] \in Lower \cup Upper \cup Digit
    /\ bothEnds => s[1] \in Lower \cup Upper \cup Digit

\* a label key: a segment, optionally after a prefix of 1 to 253 characters
\* of [a-zA-Z0-9.] and a '/'
KeyOk(k, bothEnds) ==
    IF Count(k, "/") = 0
    THEN SegmentOk(k, bothEnds)
    ELSE /\ Len(Before(k, "/")) >= 1
         /\ Len(Before(k, "/")) <= 253
         /\ \A i \in 1..Len(Before(k, "/")) :
                Before(k, "/")[i] \in Lower \cup Upper \cup Digit \cup {"."}
         /\ SegmentOk(After(k, "/"), bothEnds)

\* the label grammar: key, exactly one '=', value
LabelGrammar(v, bothEnds) ==
    /\ Count(v, "=") = 1
    /\ KeyOk(Before(v, "="), bothEnds)
    /\ SegmentOk(After(v, "="), bothEnds)

----------------------------------------------------------------------------
(* C1: a child that runs and exits with a code N, 1 <= N <= 255, ends the  *)
(* run with exit code N exactly, and no patch request is issued.           *)
C1_ChildCodePropagated ==
    \A n \in 1..255 :
        ChildExited(n) =>
            /\ pc = "done"
            /\ exit = {n}
            /\ patches = <<>>
            /\ "patch" \notin Range(ops)

C1_Witness ==
    /\ ChildExited(255)
    /\ pc = "done"
    /\ exit = {255}
    /\ patches = <<>>

(* C2: a child that exits with code 0 leads to exactly one patch request   *)
(* (never more than one at any time, exactly one once the run has ended),  *)
(* carrying the parsed namespace, resource name and label pair and the     *)
(* field manager "k8s-psl", addressed to the Pod API for a Pod and to the  *)
(* Job API for a Job.                                                      *)
C2_ExactlyOnePatch ==
    /\ Len(patches) <= 1
    /\ (ChildExited(0) /\ pc # "done") => (pc = "patch" /\ patches = <<>>)
    /\ (ChildExited(0) /\ pc = "done") =>
          /\ Len(patches) = 1
          /\ patches[1].namespace = cli.namespace
          /\ patches[1].namespace = args.namespace
          /\ patches[1].name = cli.resource.name
          /\ patches[1].labels = {<<cli.label.key, cli.label.value>>}
          /\ patches[1].field_manager = "k8s-psl"
          /\ patches[1].patch = "Apply"
          /\ cli.resource.kind = "Pod" => patches[1].api = "Pod"
          /\ cli.resource.kind = "Job" => patches[1].api = "Job"
          /\ patches[1].api \in {"Pod", "Job"}

C2_Witness ==
    /\ pc = "done"
    /\ ChildExited(0)
    /\ Len(patches) = 1
    /\ patches[1].api = "Job"
    /\ patches[1].namespace = "jobs"
    /\ patches[1].name = <<"a", "/", "b">>
    /\ patches[1].labels = {<< <<"a", ".", "b", "/", "k">>, <<"v">> >>}

(* C3: once the patch has been attempted the exit code follows from the    *)
(* patch outcome alone, for both kinds: API error 66, service error 68,    *)
(* any other error 1, success 0.                                           *)
C3_ExitFromPatchOutcome ==
    (pc = "done" /\ Len(patches) = 1) =>
        /\ result \in PatchResults
        /\ result = "Api" => exit = {66}
        /\ result = "Service" => exit = {68}
        /\ result \notin {"Api", "Service", "Ok"} => exit = {1}
        /\ result = "Ok" => exit = {0}

C3_Witness ==
    /\ pc = "done"
    /\ Len(patches) = 1
    /\ patches[1].api = "Job"
    /\ result = "Service"
    /\ exit = {68}

(* C4, as stated: on a run with a malformed label, a malformed resource    *)
(* identifier or an empty command the Kubernetes client is never           *)
(* constructed, no child is spawned and no patch is issued.                *)
C4_Original ==
    (LabelInvalid \/ ResourceInvalid \/ args.command = <<>>) =>
        /\ ~k8s_client
        /\ "spawn" \notin Range(ops)
        /\ patches = <<>>

(* C4, amended: a malformed label or resource identifier is rejected by    *)
(* the argument parser before anything else happens (no configuration      *)
(* inferred, no client constructed, no child spawned, no patch; the run    *)
(* ends with the usage code 2, or 0 when help or version was asked first). *)
(* An empty command is found only after the configuration has been         *)
(* inferred and the client constructed: nothing is spawned, no patch is    *)
(* issued, and the run ends at that step with exit code 1.                 *)
C4_ValidationBeforeActivity ==
    /\ (LabelInvalid \/ ResourceInvalid) =>
          /\ ops = <<>>
          /\ ~k8s_config.inferred
          /\ ~k8s_client
          /\ status = NotRun
          /\ patches = <<>>
          /\ pc \in {"parse", "done"}
          /\ pc = "done" => (exit = {2} \/ (args.flag # "run" /\ exit = {0}))
    /\ args.command = <<>> =>
          /\ "spawn" \notin Range(ops)
          /\ status = NotRun
          /\ patches = <<>>
          /\ pc # "patch"
          /\ (pc = "done" /\ k8s_client) => exit = {1}

C4_Witness ==
    /\ pc = "done"
    /\ args.command = <<>>
    /\ k8s_client
    /\ ops = <<"infer", "client">>
    /\ exit = {1}

(* C5, as stated: of the runs that get past the argument parser, exit code *)
(* 66 ends only a run whose patch was rejected with an API error, 68 only  *)
(* a run whose patch failed with a service error, and 0 only a run whose   *)
(* child succeeded and whose patch was applied.                            *)
C5_Original ==
    (pc = "done" /\ args.flag = "run") =>
        /\ exit = {66} => result = "Api"
        /\ exit = {68} => result = "Service"
        /\ exit = {0} => (ChildExited(0) /\ result = "Ok")

(* C5, amended: of the runs that get past the argument parser, exit code 0 *)
(* ends only a run whose child succeeded and whose patch was applied; exit *)
(* code 66 ends a run whose patch was rejected with an API error or whose  *)
(* child itself exited with 66, and exit code 68 a run whose patch failed  *)
(* with a service error or whose child itself exited with 68.              *)
C5_ExitCodeOrigins ==
    (pc = "done" /\ args.flag = "run") =>
        /\ exit = {66} => ((ChildExited(0) /\ result = "Api")
                           \/ (ChildExited(66) /\ patches = <<>>))
        /\ exit = {68} => ((ChildExited(0) /\ result = "Service")
                           \/ (ChildExited(68) /\ patches = <<>>))
        /\ exit = {0} => (ChildExited(0) /\ result = "Ok")

C5_Witness ==
    /\ pc = "done"
    /\ args.flag = "run"
    /\ exit = {66}
    /\ ChildExited(66)
    /\ result = "none"

(* C6, as stated: parse_label succeeds exactly on the strings of the label *)
(* grammar whose name and value segments begin and end with an             *)
(* alphanumeric character, and returns the text before and after the '='.  *)
C6_Original ==
    pc = "label_done" =>
        /\ cli.label.ok <=> LabelGrammar(args.label, TRUE)
        /\ cli.label.ok => /\ cli.label.key = Before(args.label, "=")
                           /\ cli.label.value = After(args.label, "=")

(* C6, amended: parse_label succeeds exactly on the strings made of an     *)
(* optional prefix (1 to 253 characters of [a-zA-Z0-9.]) and '/', a name   *)
(* and a value of 1 to 63 characters of [a-zA-Z0-9-_.] each ending (but    *)
(* not necessarily beginning) with an alphanumeric character, and exactly  *)
(* one '='; it returns the text before and after the '='.                  *)
C6_LabelGrammar ==
    pc = "label_done" =>
        /\ cli.label.ok <=> LabelGrammar(args.label, FALSE)
        /\ cli.label.ok => /\ cli.label.key = Before(args.label, "=")
                           /\ cli.label.value = After(args.label, "=")

C6_Witness ==
    /\ pc = "label_done"
    /\ cli.label.ok
    /\ Len(cli.label.key) = 63
    /\ cli.label.key[1] = "-"
    /\ cli.label.value = <<"v">>

(* C7: parse_resource succeeds on "pod/" + name and "job/" + name with     *)
(* kind Pod, respectively Job, and the name unchanged (further '/' and the *)
(* empty name included), and fails whenever the text before the first '/'  *)
(* is not exactly "pod" or "job".                                          *)
C7_ResourceParsed ==
    pc = "resource_done" =>
        /\ IsPrefix(<<"p", "o", "d", "/">>, args.resource) =>
              cli.resource = [ok |-> TRUE, kind |-> "Pod",
                              name |-> SubSeq(args.resource, 5, Len(args.resource))]
        /\ IsPrefix(<<"j", "o", "b", "/">>, args.resource) =>
              cli.resource = [ok |-> TRUE, kind |-> "Job",
                              name |-> SubSeq(args.resource, 5, Len(args.resource))]
        /\ Before(args.resource, "/") \notin {<<"p", "o", "d">>, <<"j", "o", "b">>} =>
              ~cli.resource.ok

C7_Witness ==
    /\ pc = "resource_done"
    /\ args.resource = <<"j", "o", "b", "/", "w", "/", "p">>
    /\ cli.resource.ok
    /\ cli.resource.kind = "Job"
    /\ cli.resource.name = <<"w", "/", "p">>

(* C9: the operations happen in the order client construction (the         *)
(* configuration inferred, then the client built), child execution, patch, *)
(* each at most once, the patch only after a child that exited 0; when     *)
(* inferring the configuration or building the client fails nothing is     *)
(* spawned, no patch is issued and the run ends with exit code 1.          *)
C9_StrictOrder ==
    /\ IsPrefix(ops, <<"infer", "client", "spawn", "patch">>)
    /\ "spawn" \in Range(ops) => k8s_client
    /\ "patch" \in Range(ops) => ChildExited(0)
    /\ ((ops # <<>> /\ pc # "infer" /\ ~k8s_config.inferred)
        \/ (Len(ops) >= 2 /\ ~k8s_client)) =>
          /\ pc = "done"
          /\ exit = {1}
          /\ status = NotRun
          /\ "spawn" \notin Range(ops)
          /\ patches = <<>>

C9_Witness ==
    /\ pc = "done"
    /\ ops = <<"infer">>
    /\ ~k8s_config.inferred
    /\ status = NotRun
    /\ exit = {1}

(* C10: a child without a usable exit code ends the run with exit code 1   *)
(* and without a patch: when it cannot be spawned, when it is terminated   *)
(* without a code, and when its code lies outside 0..255.                  *)
C10_NoUsableCode ==
    (\/ status.state = "spawn_error"
     \/ status.state = "signaled"
     \/ status.state = "exited" /\ \E c \in status.code : c < 0 \/ c > 255) =>
        /\ pc = "done"
        /\ exit = {1}
        /\ patches = <<>>

C10_Witness ==
    /\ pc = "done"
    /\ ChildExited(256)
    /\ exit = {1}
    /\ patches = <<>>

====
